---- MODULE Spec2Model ----
(***************************************************************************)
(* Model of kafka/connection/kafka_connection.go: broker address           *)
(* validation, trust-store loading, connection-key derivation, the         *)
(* connection builder getKafkaConnection and KafkaConnect.Stop.            *)
(*                                                                         *)
(* A Go string is modelled as a sequence of one-character strings, so that *)
(* splitting, concatenation and number parsing are computed, not assumed.  *)
(***************************************************************************)
EXTENDS Integers, Sequences, FiniteSets, TLC

VARIABLES
    settings,      \* the *Settings argument: BrokerUrls, User, Password, TrustStore
    fs,            \* what the filesystem holds at the path settings.TrustStore
    pc,            \* position of the running call
    kafkaConfig,   \* newConn.kafkaConfig (*sarama.Config)
    brokerUrls,    \* local brokerUrls of getKafkaConnection
    brokers,       \* local brokers / newConn.brokers
    brokerNo,      \* loop index of the validation loop
    syncProducer,  \* newConn.syncProducer
    consumer,      \* newConn.consumer
    ret,           \* what getKafkaConnection returned: (handle, error)
    calls,         \* every filesystem and network call made so far, in order
    warnings,      \* every logger.Warnf made so far, in order (the file's index)
    stops,         \* number of Stop calls started
    stopRet,       \* what the last Stop returned
    connKey,       \* what the last getConnectionKey returned
    keyCalls,      \* number of getConnectionKey calls made
    broker,        \* argument of validateBrokerUrl
    brokerErr,     \* result of validateBrokerUrl
    certsRet       \* result of getCerts: (pool, error)

vars == <<settings, fs, pc, kafkaConfig, brokerUrls, brokers, brokerNo,
          syncProducer, consumer, ret, calls, warnings, stops, stopRet,
          connKey, keyCalls, broker, brokerErr, certsRet>>

(***************************************************************************)
(* Bounds of the model.                                                    *)
(***************************************************************************)
MaxAddrLen == 4      \* validateBrokerUrl: every string up to this length
MaxBrokers == 2      \* getKafkaConnection: comma-separated entries in BrokerUrls
MaxFiles == 3        \* getCerts: directory entries of the trust store
MaxStoreFiles == 1   \* getKafkaConnection: directory entries of the trust store
MaxStops == 2        \* Stop calls on one handle
MaxKeyCalls == 2     \* getConnectionKey calls

(***************************************************************************)
(* Program constants.                                                      *)
(***************************************************************************)
MaxPort == 32767     \* validateBrokerUrl: i > 32767
RetryMax == 5        \* kafkaConfig.Producer.Retry.Max = 5

(***************************************************************************)
(* Strings.                                                                *)
(***************************************************************************)
EmptyStr == << >>

Digits == {"0", "1", "2", "3", "4", "5", "6", "7", "8", "9"}

DigitVal(ch) ==
    CASE ch = "0" -> 0 [] ch = "1" -> 1 [] ch = "2" -> 2 [] ch = "3" -> 3
      [] ch = "4" -> 4 [] ch = "5" -> 5 [] ch = "6" -> 6 [] ch = "7" -> 7
      [] ch = "8" -> 8 [] ch = "9" -> 9

\* All strings over alphabet A of length at most n.
StringsUpTo(A, n) == UNION {[1..k -> A] : k \in 0..n}

\* strings.Split(s, sep) for a one-character sep: the pieces between the
\* separators; a string holding no separator (the empty string too) yields
\* one piece, itself.
RECURSIVE SplitFrom(_, _, _, _)
SplitFrom(s, sep, i, cur) ==
    IF i > Len(s) THEN <<cur>>
    ELSE IF s[i] = sep THEN <<cur>> \o SplitFrom(s, sep, i + 1, EmptyStr)
    ELSE SplitFrom(s, sep, i + 1, Append(cur, s[i]))

Split(s, sep) == SplitFrom(s, sep, 1, EmptyStr)

\* The value of a string of decimal digits, most significant first.
RECURSIVE DigitsValue(_, _)
DigitsValue(ds, acc) ==
    IF ds = EmptyStr THEN acc
    ELSE DigitsValue(Tail(ds), acc * 10 + DigitVal(Head(ds)))

\* strconv.Atoi(s): an optional sign, then one or more decimal digits.
\* (Strings here are shorter than 19 characters, so no value overflows int.)
Atoi(s) ==
    LET signed == Len(s) > 0 /\ s[1] \in {"+", "-"}
        body == IF signed THEN Tail(s) ELSE s
    IN  IF body = EmptyStr \/ \E k \in 1..Len(body) : body[k] \notin Digits
        THEN [ok |-> FALSE, val |-> 0]
        ELSE [ok |-> TRUE,
              val |-> IF signed /\ s[1] = "-" THEN 0 - DigitsValue(body, 0)
                      ELSE DigitsValue(body, 0)]

(***************************************************************************)
(* Errors: a kind and the value the message names.                         *)
(***************************************************************************)
Err(kind, arg) == [kind |-> kind, arg |-> arg]

Nil == Err("nil", EmptyStr)

(***************************************************************************)
(* validateBrokerUrl                                                       *)
(***************************************************************************)
\* Mutant: the section count is only checked from above.
validateBrokerUrlNoSectionCheck(b) ==
    LET hostPort == Split(b, ":")
    IN  IF Len(hostPort) > 2 THEN Err("Sections", b)
        ELSE IF Len(hostPort) < 2 THEN Nil
        ELSE LET a == Atoi(hostPort[2])
             IN  IF ~a.ok \/ a.val < 0 \/ a.val > MaxPort
                 THEN Err("Port", hostPort[2])
                 ELSE Nil

validateBrokerUrl(b) ==
    LET hostPort == Split(b, ":")
    IN  IF Len(hostPort) # 2 THEN Err("Sections", b)
        ELSE LET a == Atoi(hostPort[2])
             IN  IF ~a.ok \/ a.val < 0 \/ a.val > MaxPort
                 THEN Err("Port", hostPort[2])
                 ELSE Nil

(***************************************************************************)
(* The filesystem at the trust-store path, and calls made to the outside.  *)
(***************************************************************************)
CertIds == {"ca1", "ca2"}

\* A directory entry: whether ioutil.ReadFile succeeds on it, and the
\* certificates its PEM blocks hold (none: the bytes do not parse as PEM
\* certificates).
FileKinds ==
    {[readable |-> FALSE, certs |-> {}]}
        \cup {[readable |-> TRUE, certs |-> cs] : cs \in SUBSET CertIds}

\* stat: what os.Stat finds: "err", or the file mode "dir", "regular", "other"
\* (a device, a socket, a pipe).  listErr: whether ioutil.ReadDir fails; it
\* always does on what is no directory.
FsShapes(n) ==
    {[stat |-> st, listErr |-> TRUE, files |-> << >>] :
        st \in {"err", "regular", "other", "dir"}}
        \cup {[stat |-> "dir", listErr |-> FALSE, files |-> fl] :
                 fl \in StringsUpTo(FileKinds, n)}

\* A call made to the outside: the operation, the file it is about (0: none)
\* and whether it succeeded.
Call(op, n, ok) == [op |-> op, n |-> n, ok |-> ok]

FsOps == {"Stat", "ReadDir", "ReadFile"}
NetOps == {"NewSyncProducer", "NewConsumer"}
CloseOps == {"producer.Close", "consumer.Close"}

\* The calls of log cs whose operation is in ops.
CallsOf(cs, ops) == {k \in 1..Len(cs) : cs[k].op \in ops}

(***************************************************************************)
(* getCerts                                                                *)
(***************************************************************************)
\* Mutant: a file that cannot be read ends the loop.
RECURSIVE certLoopAbortOnReadError(_, _, _)
certLoopAbortOnReadError(files, i, acc) ==
    IF i > Len(files) THEN acc
    ELSE LET read == [acc EXCEPT !.calls = Append(@, Call("ReadFile", i, files[i].readable))]
         IN  IF ~files[i].readable
             THEN [read EXCEPT !.warnings = Append(@, i)]
             ELSE certLoopAbortOnReadError(files, i + 1,
                      [read EXCEPT !.pool = @ \cup files[i].certs])

\* The loop over trustedCertFiles: read each file; warn when the read fails,
\* otherwise append whatever certificates its bytes hold to the pool
\* (AppendCertsFromPEM's result is not looked at; a pool holds a certificate
\* once).
RECURSIVE certLoop(_, _, _)
certLoop(files, i, acc) ==
    IF i > Len(files) THEN acc
    ELSE LET read == [acc EXCEPT !.calls = Append(@, Call("ReadFile", i, files[i].readable))]
         IN  IF ~files[i].readable
             THEN certLoop(files, i + 1, [read EXCEPT !.warnings = Append(@, i)])
             ELSE certLoop(files, i + 1,
                      [read EXCEPT !.pool = @ \cup files[i].certs])

getCerts(trustStore, f) ==
    LET start == [pool |-> {}, err |-> Nil, calls |-> <<Call("Stat", 0, f.stat # "err")>>,
                  warnings |-> << >>]
    IN  IF f.stat = "err"
        THEN [start EXCEPT !.err = Err("NotExist", trustStore)]
        ELSE IF f.stat = "regular"
        THEN [start EXCEPT !.err = Err("NotDirectory", trustStore)]
        ELSE LET listed == [start EXCEPT !.calls = Append(@, Call("ReadDir", 0, ~f.listErr))]
             IN  IF f.listErr \/ Len(f.files) = 0
                 THEN [listed EXCEPT !.err = Err("ReadDirFailed", trustStore)]
                 ELSE LET done == certLoop(f.files, 1, listed)
                      IN  IF Cardinality(done.pool) < 1
                          THEN [done EXCEPT !.err = Err("NoValidCerts", trustStore)]
                          ELSE done

(***************************************************************************)
(* getConnectionKey                                                        *)
(***************************************************************************)
\* Mutant: the user is appended before the trust store.
getConnectionKeyUserFirst(s) ==
    LET k1 == EmptyStr \o s.BrokerUrls
        k2 == IF s.User # EmptyStr THEN k1 \o s.User ELSE k1
        k3 == IF s.TrustStore # EmptyStr THEN k2 \o s.TrustStore ELSE k2
    IN  k3

getConnectionKey(s) ==
    LET k1 == EmptyStr \o s.BrokerUrls
        k2 == IF s.TrustStore # EmptyStr THEN k1 \o s.TrustStore ELSE k1
        k3 == IF s.User # EmptyStr THEN k2 \o s.User ELSE k2
    IN  k3

(***************************************************************************)
(* Inputs.                                                                 *)
(***************************************************************************)
\* Entries of a broker list: empty, two well-formed, one without a port.
BrokerEntries ==
    {EmptyStr, <<"a", ":", "1">>, <<"b", ":", "2">>, <<"a">>}

RECURSIVE Join(_)
Join(es) ==
    IF Len(es) = 0 THEN EmptyStr
    ELSE IF Len(es) = 1 THEN es[1]
    ELSE es[1] \o <<",">> \o Join(Tail(es))

BrokerUrlStrings ==
    {Join(es) : es \in UNION {[1..k -> BrokerEntries] : k \in 1..MaxBrokers}}

SettingsInputs ==
    [BrokerUrls : BrokerUrlStrings,
     User       : {EmptyStr, <<"u">>},
     Password   : {EmptyStr, <<"p">>},
     TrustStore : {EmptyStr, <<"t", "s">>}]

\* Nothing exists at the empty path.
NoFile == [stat |-> "err", listErr |-> TRUE, files |-> << >>]

\* Every string over these characters up to MaxAddrLen, and the strings at
\* the edges of the port range.
AddrAlphabet == {"h", ":", "7", "+"}

AddrInputs ==
    StringsUpTo(AddrAlphabet, MaxAddrLen)
        \cup {<<"h", ":", "3", "2", "7", "6", "7">>,
              <<"h", ":", "3", "2", "7", "6", "8">>,
              <<"h", ":", "0", "0", "0", "0", "8", "0">>,
              <<"h", ":", "9", "9", "9", "9", "9">>,
              <<"h", ":", "-", "0">>,
              <<"h", ":", "-", "1">>,
              <<"h", ":", "0">>,
              <<"h", ":", "7", "x">>,
              <<"h", "o", "s", "t", ":", "9", "0", "9", "2">>}

(***************************************************************************)
(* State before any call.                                                  *)
(***************************************************************************)
ZeroConfig ==
    [ReturnErrors |-> FALSE, ReturnSuccesses |-> FALSE,
     RequiredAcks |-> "unset", RetryMax |-> 0,
     TLSEnable |-> FALSE, RootCAs |-> {}, InsecureSkipVerify |-> FALSE,
     SASLEnable |-> FALSE, SASLUser |-> EmptyStr, SASLPassword |-> EmptyStr]

NoClient == [built |-> FALSE, brokers |-> << >>, cfg |-> ZeroConfig, closes |-> 0]

NoSettings ==
    [BrokerUrls |-> EmptyStr, User |-> EmptyStr, Password |-> EmptyStr,
     TrustStore |-> EmptyStr]

InitConn ==
    /\ kafkaConfig = ZeroConfig
    /\ brokerUrls = << >>
    /\ brokers = << >>
    /\ brokerNo = 0
    /\ syncProducer = NoClient
    /\ consumer = NoClient
    /\ ret = [conn |-> FALSE, err |-> Nil]
    /\ calls = << >>
    /\ warnings = << >>
    /\ stops = 0
    /\ stopRet = Nil
    /\ connKey = EmptyStr
    /\ keyCalls = 0
    /\ brokerErr = Nil
    /\ certsRet = [pool |-> {}, err |-> Nil]

(***************************************************************************)
(* validateBrokerUrl on its own.                                           *)
(***************************************************************************)
InitBroker ==
    /\ broker \in AddrInputs
    /\ settings = NoSettings
    /\ fs = NoFile
    /\ pc = "call"
    /\ InitConn

CallValidateBrokerUrl ==
    /\ pc = "call"
    /\ brokerErr' = validateBrokerUrl(broker)
    /\ pc' = "done"
    /\ UNCHANGED <<settings, fs, kafkaConfig, brokerUrls, brokers, brokerNo,
                   syncProducer, consumer, ret, calls, warnings, stops, stopRet,
                   connKey, keyCalls, broker, certsRet>>

NextBroker == CallValidateBrokerUrl

SpecBroker == InitBroker /\ [][NextBroker]_vars

(***************************************************************************)
(* getCerts on its own.                                                    *)
(***************************************************************************)
InitCerts ==
    /\ fs \in FsShapes(MaxFiles)
    /\ settings = [NoSettings EXCEPT !.TrustStore = <<"t", "s">>]
    /\ broker = EmptyStr
    /\ pc = "call"
    /\ InitConn

CallGetCerts ==
    /\ pc = "call"
    /\ LET r == getCerts(settings.TrustStore, fs)
       IN  /\ certsRet' = [pool |-> r.pool, err |-> r.err]
           /\ calls' = calls \o r.calls
           /\ warnings' = warnings \o r.warnings
    /\ pc' = "done"
    /\ UNCHANGED <<settings, fs, kafkaConfig, brokerUrls, brokers, brokerNo,
                   syncProducer, consumer, ret, stops, stopRet,
                   connKey, keyCalls, broker, brokerErr>>

NextCerts == CallGetCerts

SpecCerts == InitCerts /\ [][NextCerts]_vars

(***************************************************************************)
(* Properties of validateBrokerUrl (under SpecBroker).                     *)
(***************************************************************************)
\* The shape ^[^:]+:[0-9]{1,5}$ with the number in [0, MaxPort]: one colon,
\* at least one character before it, one to five digits after it.
MatchesHostPort(b) ==
    \E p \in 1..Len(b) :
        /\ b[p] = ":"
        /\ \A q \in 1..Len(b) : b[q] = ":" => q = p
        /\ p > 1
        /\ Len(b) - p \in 1..5
        /\ \A q \in (p + 1)..Len(b) : b[q] \in Digits
        /\ DigitsValue(SubSeq(b, p + 1, Len(b)), 0) <= MaxPort

\* C3: validateBrokerUrl succeeds for exactly the strings made of one or more
\* non-colon characters, one colon, and 1 to 5 decimal digits whose value is
\* in [0, 32767]; it fails for every other string.
C3_AcceptsExactlyHostPort ==
    pc = "done" => (brokerErr = Nil <=> MatchesHostPort(broker))

\* What the code accepts: exactly one colon, then an optional sign and one or
\* more digits whose value is in [0, MaxPort]; the host may be empty.
AcceptedByCode(b) ==
    \E p \in 1..Len(b) :
        /\ b[p] = ":"
        /\ \A q \in 1..Len(b) : b[q] = ":" => q = p
        /\ LET port == SubSeq(b, p + 1, Len(b))
               ds == IF port # EmptyStr /\ port[1] \in {"+", "-"}
                     THEN Tail(port) ELSE port
           IN  /\ ds # EmptyStr
               /\ \A q \in 1..Len(ds) : ds[q] \in Digits
               /\ DigitsValue(ds, 0) <= MaxPort
               /\ (port[1] = "-" => DigitsValue(ds, 0) = 0)

C3_CodeAccepts ==
    pc = "done" => (brokerErr = Nil <=> AcceptedByCode(broker))

(***************************************************************************)
(* Properties of getCerts (under SpecCerts).                               *)
(***************************************************************************)
Listed == fs.stat = "dir" /\ ~fs.listErr

\* A valid PEM file: it can be read and its bytes hold a certificate.
ValidFiles == {i \in 1..Len(fs.files) : fs.files[i].readable /\ fs.files[i].certs # {}}

\* A corrupt file: it cannot be read, or its bytes hold no certificate.
CorruptFiles == (1..Len(fs.files)) \ ValidFiles

\* Every valid file holds one certificate, and no two hold the same one.
OneCertPerFile ==
    /\ \A i \in ValidFiles : Cardinality(fs.files[i].certs) = 1
    /\ \A i, j \in ValidFiles : i # j => fs.files[i].certs # fs.files[j].certs

\* C5: on a trust-store directory of N >= 1 valid PEM files and M >= 0
\* corrupt files, getCerts succeeds, the pool holds N subjects and exactly M
\* warnings are emitted, one per skipped file (unreadable or unparsable).
C5_PoolAndWarnings ==
    (pc = "done" /\ Listed /\ OneCertPerFile /\ Cardinality(ValidFiles) >= 1)
        => /\ certsRet.err = Nil
           /\ Cardinality(certsRet.pool) = Cardinality(ValidFiles)
           /\ Len(warnings) = Cardinality(CorruptFiles)

\* What the code does there: a warning for each file that cannot be read, none
\* for a file that reads and does not parse.
C5_WarningsOnlyForUnreadable ==
    (pc = "done" /\ Listed /\ OneCertPerFile /\ Cardinality(ValidFiles) >= 1)
        => /\ certsRet.err = Nil
           /\ Cardinality(certsRet.pool) = Cardinality(ValidFiles)
           /\ Len(warnings)
                  = Cardinality({i \in 1..Len(fs.files) : ~fs.files[i].readable})

\* The kind of error the ordered decision of C6 gives for the filesystem fs.
ExpectedCertsError ==
    IF fs.stat = "err" THEN "NotExist"
    ELSE IF fs.stat = "regular" THEN "NotDirectory"
    ELSE IF fs.listErr \/ Len(fs.files) = 0 THEN "ReadDirFailed"
    ELSE IF ValidFiles = {} THEN "NoValidCerts"
    ELSE "nil"

\* The files read, in the order of the ReadFile calls.
RECURSIVE FilesRead(_)
FilesRead(cs) ==
    IF cs = << >> THEN << >>
    ELSE IF Head(cs).op = "ReadFile" THEN <<Head(cs).n>> \o FilesRead(Tail(cs))
    ELSE FilesRead(Tail(cs))

\* C6: getCerts decides in this order: no such path -> NotExist; a regular
\* file -> NotDirectory, without listing or reading anything; a directory
\* that lists no entry or cannot be listed -> ReadDirFailed; entries but no
\* certificate in the pool after every entry was processed -> NoValidCerts;
\* otherwise success with the pool of every readable file's certificates.
\* One unreadable or unparsable file never ends the loop: every entry is read.
C6_OrderedDecision ==
    pc = "done" =>
        /\ certsRet.err.kind = ExpectedCertsError
        /\ (fs.stat = "err" => CallsOf(calls, {"ReadDir", "ReadFile"}) = {})
        /\ (fs.stat = "regular" => CallsOf(calls, {"ReadDir", "ReadFile"}) = {})
        /\ (Listed => FilesRead(calls) = [i \in 1..Len(fs.files) |-> i])
        /\ (certsRet.err = Nil =>
               certsRet.pool = UNION {fs.files[i].certs : i \in ValidFiles})

\* An unreadable file and an unparsable file come before a valid one, and
\* the load succeeds.
C6_Witness ==
    /\ pc = "done"
    /\ Len(fs.files) = 3
    /\ ~fs.files[1].readable
    /\ fs.files[2].readable /\ fs.files[2].certs = {}
    /\ fs.files[3].certs # {}
    /\ certsRet.err = Nil
    /\ Len(warnings) = 1

(***************************************************************************)
(* getKafkaConnection, then Stop on the handle it returned; getConnectionKey *)
(* at any time.                                                            *)
(***************************************************************************)
Init ==
    /\ settings \in SettingsInputs
    /\ fs \in (IF settings.TrustStore = EmptyStr THEN {NoFile}
               ELSE FsShapes(MaxStoreFiles))
    /\ broker = EmptyStr
    /\ pc = "start"
    /\ InitConn

\* return nil, e
ReturnError(e) ==
    /\ ret' = [conn |-> FALSE, err |-> e]
    /\ pc' = "done"

\* sarama.NewConfig() and the producer settings, the split of the broker
\* list and the check of its length.
Start ==
    /\ pc = "start"
    /\ kafkaConfig' = [ZeroConfig EXCEPT !.ReturnErrors = TRUE,
                                         !.RequiredAcks = "WaitForAll",
                                         !.RetryMax = RetryMax,
                                         !.ReturnSuccesses = TRUE]
    /\ brokerUrls' = Split(settings.BrokerUrls, ",")
    /\ IF Len(brokerUrls') < 1
       THEN /\ ReturnError(Err("NoBroker", settings.BrokerUrls))
            /\ UNCHANGED <<brokers, brokerNo>>
       ELSE /\ brokers' = [i \in 1..Len(brokerUrls') |-> EmptyStr]
            /\ brokerNo' = 1
            /\ pc' = "validate"
            /\ UNCHANGED ret
    /\ UNCHANGED <<settings, fs, syncProducer, consumer, calls, warnings,
                   stops, stopRet, connKey, keyCalls, broker, brokerErr, certsRet>>

\* Mutant: an entry that fails validation is skipped and the loop goes on.
ValidateNextSkipInvalid ==
    /\ pc = "validate"
    /\ LET b == brokerUrls[brokerNo]
           e == validateBrokerUrl(b)
       IN  /\ brokers' = IF e # Nil THEN brokers ELSE [brokers EXCEPT ![brokerNo] = b]
           /\ brokerNo' = brokerNo + 1
           /\ pc' = IF brokerNo = Len(brokerUrls) THEN "truststore" ELSE "validate"
           /\ UNCHANGED ret
    /\ UNCHANGED <<settings, fs, kafkaConfig, brokerUrls, syncProducer, consumer,
                   calls, warnings, stops, stopRet, connKey, keyCalls, broker,
                   brokerErr, certsRet>>

\* One turn of the loop over brokerUrls; after the last entry newConn.brokers
\* is set.
ValidateNext ==
    /\ pc = "validate"
    /\ LET b == brokerUrls[brokerNo]
           e == validateBrokerUrl(b)
       IN  IF e # Nil
           THEN /\ ReturnError(Err("BrokerFormat", b))
                /\ UNCHANGED <<brokers, brokerNo>>
           ELSE /\ brokers' = [brokers EXCEPT ![brokerNo] = b]
                /\ brokerNo' = brokerNo + 1
                /\ pc' = IF brokerNo = Len(brokerUrls) THEN "truststore" ELSE "validate"
                /\ UNCHANGED ret
    /\ UNCHANGED <<settings, fs, kafkaConfig, brokerUrls, syncProducer, consumer,
                   calls, warnings, stops, stopRet, connKey, keyCalls, broker,
                   brokerErr, certsRet>>

\* Mutant: TLS is configured whatever getCerts returned.
LoadTrustStoreIgnoreError ==
    /\ pc = "truststore"
    /\ IF settings.TrustStore # EmptyStr
       THEN LET r == getCerts(settings.TrustStore, fs)
            IN  /\ calls' = calls \o r.calls
                /\ warnings' = warnings \o r.warnings
                /\ kafkaConfig' = [kafkaConfig EXCEPT !.TLSEnable = TRUE,
                                                      !.RootCAs = r.pool,
                                                      !.InsecureSkipVerify = TRUE]
       ELSE UNCHANGED <<calls, warnings, kafkaConfig>>
    /\ pc' = "sasl"
    /\ UNCHANGED <<ret, settings, fs, brokerUrls, brokers, brokerNo, syncProducer,
                   consumer, stops, stopRet, connKey, keyCalls, broker, brokerErr,
                   certsRet>>

\* if settings.TrustStore != "": getCerts, then the TLS configuration.
LoadTrustStore ==
    /\ pc = "truststore"
    /\ IF settings.TrustStore # EmptyStr
       THEN LET r == getCerts(settings.TrustStore, fs)
            IN  /\ calls' = calls \o r.calls
                /\ warnings' = warnings \o r.warnings
                /\ IF r.err = Nil
                   THEN /\ kafkaConfig' = [kafkaConfig EXCEPT
                                              !.TLSEnable = TRUE,
                                              !.RootCAs = r.pool,
                                              !.InsecureSkipVerify = TRUE]
                        /\ pc' = "sasl"
                        /\ UNCHANGED ret
                   ELSE /\ ReturnError(r.err)
                        /\ UNCHANGED kafkaConfig
       ELSE /\ pc' = "sasl"
            /\ UNCHANGED <<calls, warnings, kafkaConfig, ret>>
    /\ UNCHANGED <<settings, fs, brokerUrls, brokers, brokerNo, syncProducer,
                   consumer, stops, stopRet, connKey, keyCalls, broker, brokerErr,
                   certsRet>>

\* Mutant: the password is not looked at.
SaslNoPasswordCheck ==
    /\ pc = "sasl"
    /\ kafkaConfig' = IF settings.User # EmptyStr
                      THEN [kafkaConfig EXCEPT !.SASLEnable = TRUE,
                                               !.SASLUser = settings.User,
                                               !.SASLPassword = settings.Password]
                      ELSE kafkaConfig
    /\ pc' = "producer"
    /\ UNCHANGED <<ret, settings, fs, brokerUrls, brokers, brokerNo, syncProducer,
                   consumer, calls, warnings, stops, stopRet, connKey, keyCalls,
                   broker, brokerErr, certsRet>>

\* if settings.User != "": the password check, then the SASL configuration.
Sasl ==
    /\ pc = "sasl"
    /\ IF settings.User # EmptyStr
       THEN IF Len(settings.Password) = 0
            THEN /\ ReturnError(Err("NoPassword", settings.User))
                 /\ UNCHANGED kafkaConfig
            ELSE /\ kafkaConfig' = [kafkaConfig EXCEPT
                                       !.SASLEnable = TRUE,
                                       !.SASLUser = settings.User,
                                       !.SASLPassword = settings.Password]
                 /\ pc' = "producer"
                 /\ UNCHANGED ret
       ELSE /\ pc' = "producer"
            /\ UNCHANGED <<kafkaConfig, ret>>
    /\ UNCHANGED <<settings, fs, brokerUrls, brokers, brokerNo, syncProducer,
                   consumer, calls, warnings, stops, stopRet, connKey, keyCalls,
                   broker, brokerErr, certsRet>>

\* sarama.NewSyncProducer(newConn.brokers, newConn.kafkaConfig): the network
\* decides whether it succeeds.
NewSyncProducer ==
    /\ pc = "producer"
    /\ \E ok \in BOOLEAN :
        /\ calls' = Append(calls, Call("NewSyncProducer", 0, ok))
        /\ IF ok
           THEN /\ syncProducer' = [built |-> TRUE, brokers |-> brokers,
                                    cfg |-> kafkaConfig, closes |-> 0]
                /\ pc' = "consumer"
                /\ UNCHANGED ret
           ELSE /\ ReturnError(Err("ProducerFailed", EmptyStr))
                /\ UNCHANGED syncProducer
    /\ UNCHANGED <<settings, fs, kafkaConfig, brokerUrls, brokers, brokerNo,
                   consumer, warnings, stops, stopRet, connKey, keyCalls, broker,
                   brokerErr, certsRet>>

\* Mutant: the producer is closed when the consumer cannot be built.
NewConsumerCloseProducerOnError ==
    /\ pc = "consumer"
    /\ \E ok \in BOOLEAN :
        IF ok
        THEN /\ calls' = Append(calls, Call("NewConsumer", 0, ok))
             /\ consumer' = [built |-> TRUE, brokers |-> brokers,
                             cfg |-> kafkaConfig, closes |-> 0]
             /\ ret' = [conn |-> TRUE, err |-> Nil]
             /\ pc' = "done"
             /\ UNCHANGED syncProducer
        ELSE /\ calls' = calls \o <<Call("NewConsumer", 0, ok),
                                    Call("producer.Close", 0, TRUE)>>
             /\ syncProducer' = [syncProducer EXCEPT !.closes = @ + 1]
             /\ ReturnError(Err("ConsumerFailed", EmptyStr))
             /\ UNCHANGED consumer
    /\ UNCHANGED <<settings, fs, kafkaConfig, brokerUrls, brokers, brokerNo,
                   warnings, stops, stopRet, connKey, keyCalls, broker,
                   brokerErr, certsRet>>

\* sarama.NewConsumer(brokers, newConn.kafkaConfig), then return newConn, nil.
NewConsumer ==
    /\ pc = "consumer"
    /\ \E ok \in BOOLEAN :
        /\ calls' = Append(calls, Call("NewConsumer", 0, ok))
        /\ IF ok
           THEN /\ consumer' = [built |-> TRUE, brokers |-> brokers,
                                cfg |-> kafkaConfig, closes |-> 0]
                /\ ret' = [conn |-> TRUE, err |-> Nil]
                /\ pc' = "done"
           ELSE /\ ReturnError(Err("ConsumerFailed", EmptyStr))
                /\ UNCHANGED consumer
    /\ UNCHANGED <<settings, fs, kafkaConfig, brokerUrls, brokers, brokerNo,
                   syncProducer, warnings, stops, stopRet, connKey, keyCalls,
                   broker, brokerErr, certsRet>>

\* Mutant: a failed producer close is remembered and the consumer is closed too.
StopCloseProducerGoOn ==
    /\ pc = "done"
    /\ ret.conn
    /\ stops < MaxStops
    /\ stops' = stops + 1
    /\ \E ok \in BOOLEAN :
        /\ calls' = Append(calls, Call("producer.Close", 0, ok))
        /\ syncProducer' = [syncProducer EXCEPT !.closes = @ + 1]
        /\ pc' = "stopConsumer"
        /\ stopRet' = IF ok THEN stopRet ELSE Err("ProducerClose", EmptyStr)
    /\ UNCHANGED <<settings, fs, kafkaConfig, brokerUrls, brokers, brokerNo,
                   consumer, ret, warnings, connKey, keyCalls, broker, brokerErr,
                   certsRet>>

\* Stop, first half: c.syncProducer.Close(); its error is returned at once.
StopCloseProducer ==
    /\ pc = "done"
    /\ ret.conn
    /\ stops < MaxStops
    /\ stops' = stops + 1
    /\ \E ok \in BOOLEAN :
        /\ calls' = Append(calls, Call("producer.Close", 0, ok))
        /\ syncProducer' = [syncProducer EXCEPT !.closes = @ + 1]
        /\ IF ok
           THEN /\ pc' = "stopConsumer"
                /\ UNCHANGED stopRet
           ELSE /\ stopRet' = Err("ProducerClose", EmptyStr)
                /\ pc' = "done"
    /\ UNCHANGED <<settings, fs, kafkaConfig, brokerUrls, brokers, brokerNo,
                   consumer, ret, warnings, connKey, keyCalls, broker, brokerErr,
                   certsRet>>

\* Stop, second half: c.consumer.Close(); its result is Stop's result.
StopCloseConsumer ==
    /\ pc = "stopConsumer"
    /\ \E ok \in BOOLEAN :
        /\ calls' = Append(calls, Call("consumer.Close", 0, ok))
        /\ consumer' = [consumer EXCEPT !.closes = @ + 1]
        /\ stopRet' = IF ok THEN Nil ELSE Err("ConsumerClose", EmptyStr)
    /\ pc' = "done"
    /\ UNCHANGED <<settings, fs, kafkaConfig, brokerUrls, brokers, brokerNo,
                   syncProducer, ret, warnings, stops, connKey, keyCalls, broker,
                   brokerErr, certsRet>>

\* A caller derives the connection key; the function only reads settings.
GetConnectionKey ==
    /\ keyCalls < MaxKeyCalls
    /\ keyCalls' = keyCalls + 1
    /\ connKey' = getConnectionKey(settings)
    /\ UNCHANGED <<settings, fs, pc, kafkaConfig, brokerUrls, brokers, brokerNo,
                   syncProducer, consumer, ret, calls, warnings, stops, stopRet,
                   broker, brokerErr, certsRet>>

Next ==
    \/ Start
    \/ ValidateNext
    \/ LoadTrustStore
    \/ Sasl
    \/ NewSyncProducer
    \/ NewConsumer
    \/ StopCloseProducer
    \/ StopCloseConsumer
    \/ GetConnectionKey

Spec == Init /\ [][Next]_vars

(***************************************************************************)
(* Properties of getKafkaConnection, Stop and getConnectionKey (under Spec). *)
(***************************************************************************)
\* The call has returned (Stop may be running on the handle).
Returned == pc \in {"done", "stopConsumer"}

\* The comma-separated entries of the broker list.
Entries == Split(settings.BrokerUrls, ",")

InvalidEntries == {i \in 1..Len(Entries) : validateBrokerUrl(Entries[i]) # Nil}

\* The first entry that validateBrokerUrl rejects (when there is one).
FirstInvalid == CHOOSE i \in InvalidEntries : \A j \in InvalidEntries : i <= j

UserWithoutPassword ==
    settings.User # EmptyStr /\ settings.Password = EmptyStr /\ InvalidEntries = {}

\* C1: with a non-empty username and an empty password (and a valid broker
\* list), getKafkaConnection fails with the missing-password error before
\* any trust-store access and before any network access, whatever the
\* trust-store path.
C1_PasswordBeforeTrustStore ==
    UserWithoutPassword =>
        /\ CallsOf(calls, FsOps \cup NetOps) = {}
        /\ (Returned => ret = [conn |-> FALSE,
                               err |-> Err("NoPassword", settings.User)])

\* C1, amended: with a non-empty username and an empty password (and a valid
\* broker list), getKafkaConnection returns an error and no handle before
\* any network access; the trust store is loaded first when its path is set
\* (and only then is it accessed), and the error is the missing-password
\* error when the path is empty or the load succeeded, and the load's error
\* otherwise.
C1_PasswordAfterTrustStore ==
    UserWithoutPassword =>
        /\ CallsOf(calls, NetOps) = {}
        /\ ~syncProducer.built /\ ~consumer.built
        /\ (settings.TrustStore = EmptyStr => CallsOf(calls, FsOps) = {})
        /\ (Returned =>
              /\ pc = "done" /\ ~ret.conn
              /\ (settings.TrustStore # EmptyStr =>
                     calls # << >> /\ calls[1].op = "Stat")
              /\ ret.err =
                    IF settings.TrustStore = EmptyStr \/ ExpectedCertsError = "nil"
                    THEN Err("NoPassword", settings.User)
                    ELSE Err(ExpectedCertsError, settings.TrustStore))

\* The missing-password error is returned after the trust store was read.
C1_Witness ==
    /\ pc = "done"
    /\ UserWithoutPassword
    /\ settings.TrustStore # EmptyStr
    /\ ret.err.kind = "NoPassword"
    /\ CallsOf(calls, {"ReadFile"}) # {}

\* C2: Stop closes the producer first; when that close fails Stop returns its
\* error and the consumer's Close is not called; when it succeeds Stop closes
\* the consumer and returns exactly that close's result.  The consumer is
\* never closed before the producer.
C2_StopOrder ==
    /\ \A k \in CallsOf(calls, {"consumer.Close"}) :
           k > 1 /\ calls[k - 1].op = "producer.Close" /\ calls[k - 1].ok
    /\ \A k \in CallsOf(calls, {"producer.Close"}) :
           IF k < Len(calls)
           THEN calls[k + 1].op = (IF calls[k].ok THEN "consumer.Close"
                                   ELSE "producer.Close")
           ELSE IF calls[k].ok THEN pc = "stopConsumer"
           ELSE pc = "done" /\ stopRet = Err("ProducerClose", EmptyStr)
    /\ (pc = "done" /\ calls # << >> /\ calls[Len(calls)].op = "consumer.Close") =>
           stopRet = (IF calls[Len(calls)].ok THEN Nil
                      ELSE Err("ConsumerClose", EmptyStr))
    /\ Cardinality(CallsOf(calls, {"producer.Close"})) = stops
    /\ syncProducer.closes = stops
    /\ consumer.closes = Cardinality(CallsOf(calls, {"consumer.Close"}))

\* A Stop whose producer close failed, then a Stop that reached the consumer
\* and returned its error.
C2_Witness ==
    /\ pc = "done"
    /\ stops = 2
    /\ stopRet.kind = "ConsumerClose"
    /\ \E k \in CallsOf(calls, {"producer.Close"}) : ~calls[k].ok

\* C4: with an empty broker-list string getKafkaConnection returns an error
\* and no handle, and no filesystem and no network access happens, whatever
\* the user, password and trust-store fields.
C4_EmptyBrokerList ==
    settings.BrokerUrls = EmptyStr =>
        /\ calls = << >>
        /\ pc \in {"start", "validate", "done"}
        /\ ~syncProducer.built /\ ~consumer.built
        /\ (Returned => ~ret.conn /\ ret.err # Nil)

C4_Witness ==
    /\ pc = "done"
    /\ settings.BrokerUrls = EmptyStr
    /\ settings.User # EmptyStr
    /\ settings.Password # EmptyStr
    /\ settings.TrustStore # EmptyStr
    /\ fs.stat = "dir"
    /\ ret.err.kind = "BrokerFormat"

\* C7: getConnectionKey returns the broker-list string, then the trust-store
\* path if non-empty, then the username if non-empty, with no separators;
\* the password does not enter the key; Settings is not modified.
C7_KeyIsConcatenation ==
    /\ [](keyCalls > 0 =>
             connKey = settings.BrokerUrls \o settings.TrustStore \o settings.User)
    /\ [][settings' = settings]_vars

C7_Witness ==
    /\ keyCalls > 0
    /\ settings.TrustStore # EmptyStr
    /\ settings.User # EmptyStr
    /\ settings.Password # EmptyStr
    /\ Len(Entries) = 2

\* C8: the consumer is constructed only after the producer was constructed
\* successfully; when the consumer construction then fails the call returns
\* that error with no handle, and the producer it built is not closed.
C8_ProducerLeaked ==
    /\ \A k \in CallsOf(calls, {"NewConsumer"}) :
           k > 1 /\ calls[k - 1].op = "NewSyncProducer" /\ calls[k - 1].ok
    /\ (Returned /\ ret.err.kind = "ConsumerFailed") =>
           /\ ~ret.conn
           /\ syncProducer.built
           /\ syncProducer.closes = 0
           /\ ~consumer.built
           /\ CallsOf(calls, CloseOps) = {}
           /\ calls[Len(calls)] = Call("NewConsumer", 0, FALSE)
    /\ (calls # << >> /\ calls[Len(calls)] = Call("NewConsumer", 0, FALSE)) =>
           pc = "done" /\ ret.err.kind = "ConsumerFailed"

C8_Witness ==
    /\ pc = "done"
    /\ ret.err.kind = "ConsumerFailed"
    /\ syncProducer.built
    /\ kafkaConfig.TLSEnable

\* C9: the entries are validated in list order; at the first one rejected the
\* call returns an error naming it, later entries are not validated, and
\* nothing was constructed: no trust-store load, no SASL configuration, no
\* producer, no consumer.
C9_FirstInvalidEntry ==
    /\ InvalidEntries # {} =>
        /\ calls = << >> /\ warnings = << >>
        /\ ~kafkaConfig.TLSEnable /\ ~kafkaConfig.SASLEnable
        /\ ~syncProducer.built /\ ~consumer.built
        /\ pc \in {"start", "validate", "done"}
        /\ brokerNo <= FirstInvalid
        /\ (Returned =>
              /\ ret = [conn |-> FALSE,
                        err |-> Err("BrokerFormat", Entries[FirstInvalid])]
              /\ brokerNo = FirstInvalid
              /\ \A j \in 1..Len(brokers) :
                     brokers[j] = (IF j < FirstInvalid THEN Entries[j] ELSE EmptyStr))
    /\ ret.err.kind = "BrokerFormat" => InvalidEntries # {}

\* The first entry is rejected and a well-formed second entry is left alone.
C9_Witness ==
    /\ pc = "done"
    /\ Len(Entries) = 2
    /\ InvalidEntries = {1}
    /\ settings.TrustStore # EmptyStr
    /\ settings.User # EmptyStr
    /\ ret.err.kind = "BrokerFormat"

\* C10: a handle that is returned has TLS enabled iff the trust-store path is
\* non-empty (the pool then being what a successful getCerts returned), SASL
\* enabled iff the username is non-empty (user and password then non-empty
\* and those of Settings), and a producer and a consumer built from the same
\* validated broker list and the same configuration.
C10_HandleConfig ==
    ret.conn =>
        /\ kafkaConfig.TLSEnable <=> settings.TrustStore # EmptyStr
        /\ kafkaConfig.TLSEnable =>
              /\ ExpectedCertsError = "nil"
              /\ kafkaConfig.RootCAs = UNION {fs.files[i].certs : i \in ValidFiles}
              /\ kafkaConfig.RootCAs # {}
        /\ kafkaConfig.SASLEnable <=> settings.User # EmptyStr
        /\ kafkaConfig.SASLEnable =>
              /\ kafkaConfig.SASLUser = settings.User
              /\ kafkaConfig.SASLPassword = settings.Password
              /\ kafkaConfig.SASLUser # EmptyStr
              /\ kafkaConfig.SASLPassword # EmptyStr
        /\ ~kafkaConfig.SASLEnable =>
              kafkaConfig.SASLUser = EmptyStr /\ kafkaConfig.SASLPassword = EmptyStr
        /\ syncProducer.built /\ consumer.built
        /\ InvalidEntries = {}
        /\ syncProducer.brokers = Entries
        /\ consumer.brokers = Entries
        /\ syncProducer.cfg = kafkaConfig
        /\ consumer.cfg = kafkaConfig

C10_Witness ==
    /\ ret.conn
    /\ kafkaConfig.TLSEnable
    /\ kafkaConfig.SASLEnable
    /\ Len(syncProducer.brokers) = 2

====
